---- MODULE Spec2Model ----
(***************************************************************************)
(* Model of csv_to_ontology.py: CSVOntologyPopulator.                      *)
(*                                                                         *)
(* The rdflib Graph is a set of triples <<subject, predicate, object>>.    *)
(* Subjects and predicates are URI strings; a term of the SW namespace is  *)
(* written by its local name (SW.software_id is "software_id"), a term of  *)
(* RDF/RDFS/OWL/XSD with its prefix ("rdf:type").  Objects are records     *)
(* [k, v]: k = "uri" for a URIRef, "lit" for a plain Literal, "date" for a *)
(* Literal of datatype xsd:date; v is the URI or the lexical form.         *)
(*                                                                         *)
(* A row of csv.DictReader is a function from the column names of the      *)
(* file's header to cell values: a column that the header lacks is a key   *)
(* that every row of that file lacks (row['x'] raises KeyError).  Cells    *)
(* are strings; the data_avaliacao cell is kept as its sequence of         *)
(* characters because strptime reads it character by character.            *)
(* Rows shorter than the header (cells filled with None) are not modelled. *)
(***************************************************************************)
EXTENDS Integers, Sequences, FiniteSets, TLC

\* graph, reviewer_cache: the fields of the populator.  is_open, fieldnames,
\* row_num: the process_csv call in progress (its file, the header DictReader
\* read, the loop counter of enumerate).  log: the rows read so far over all
\* calls, each with its row number and the date of its processing.
VARIABLES graph, reviewer_cache, is_open, fieldnames, row_num, log

vars == <<graph, reviewer_cache, is_open, fieldnames, row_num, log>>

(* ---------------------------------------------------------------- bounds *)
\* Rows read over the lifetime of the populator, over all its files.
MaxRows == 2

(* ----------------------------------------------------------------- terms *)
Uri(u) == [k |-> "uri", v |-> u]
Literal(s) == [k |-> "lit", v |-> s]
DateLiteral(s) == [k |-> "date", v |-> s]

classes == <<"Software", "Review", "Reviewer">>

obj_properties ==
    << <<"hasReview", "Software", "Review">>,
       <<"madeBy", "Review", "Reviewer">> >>

dt_properties ==
    << <<"software_id", "Software", "xsd:string">>,
       <<"name", "Software", "xsd:string">>,
       <<"pagina", "Software", "xsd:string">>,
       <<"fonte", "Review", "xsd:string">>,
       <<"recomendacao", "Review", "xsd:string">>,
       <<"data_avaliacao", "Review", "xsd:date">>,
       <<"comentario", "Review", "xsd:string">>,
       <<"vantagem", "Review", "xsd:string">>,
       <<"desvantagem", "Review", "xsd:string">>,
       <<"sft_anterior", "Review", "xsd:string">>,
       <<"motivo_mudanca", "Review", "xsd:string">>,
       <<"setor", "Reviewer", "xsd:string">>,
       <<"porte", "Reviewer", "xsd:string">>,
       <<"frequencia", "Reviewer", "xsd:string">>,
       <<"frequencia_complementar", "Reviewer", "xsd:string">> >>

initialize_ontology ==
    { <<classes[i], "rdf:type", Uri("owl:Class")>> : i \in DOMAIN classes }
    \cup UNION { { <<obj_properties[i][1], "rdf:type", Uri("owl:ObjectProperty")>>,
                   <<obj_properties[i][1], "rdfs:domain", Uri(obj_properties[i][2])>>,
                   <<obj_properties[i][1], "rdfs:range", Uri(obj_properties[i][3])>> }
                 : i \in DOMAIN obj_properties }
    \cup UNION { { <<dt_properties[i][1], "rdf:type", Uri("owl:DatatypeProperty")>>,
                   <<dt_properties[i][1], "rdfs:domain", Uri(dt_properties[i][2])>>,
                   <<dt_properties[i][1], "rdfs:range", Uri(dt_properties[i][3])>> }
                 : i \in DOMAIN dt_properties }

(* ------------------------------------------------- datetime.strptime/date *)
Digits == <<"0", "1", "2", "3", "4", "5", "6", "7", "8", "9">>

IsDigit(ch) == \E i \in DOMAIN Digits : Digits[i] = ch

DigitVal(ch) == (CHOOSE i \in DOMAIN Digits : Digits[i] = ch) - 1

RECURSIVE NumVal(_)
NumVal(s) == IF s = <<>> THEN 0
             ELSE 10 * NumVal(SubSeq(s, 1, Len(s) - 1)) + DigitVal(s[Len(s)])

AllDigits(s) == \A i \in DOMAIN s : IsDigit(s[i])

IsLeap(y) == (y % 4 = 0 /\ y % 100 # 0) \/ y % 400 = 0

DaysInMonth(y, m) ==
    IF m = 2 THEN (IF IsLeap(y) THEN 29 ELSE 28)
    ELSE IF m \in {4, 6, 9, 11} THEN 30 ELSE 31

\* Positions of the "-" separators of the cell.
Dashes(s) == { i \in DOMAIN s : s[i] = "-" }

\* datetime.strptime(s, '%Y-%m-%d').date(): [ok |-> FALSE] stands for
\* ValueError.  %Y is four digits, %m and %d one or two digits.
strptime(s) ==
    LET ds == Dashes(s) IN
    IF Cardinality(ds) # 2 THEN [ok |-> FALSE]
    ELSE
      LET d1 == CHOOSE i \in ds : \A j \in ds : i <= j
          d2 == CHOOSE i \in ds : \A j \in ds : j <= i
          ys == SubSeq(s, 1, d1 - 1)
          ms == SubSeq(s, d1 + 1, d2 - 1)
          dd == SubSeq(s, d2 + 1, Len(s))
      IN IF /\ Len(ys) = 4 /\ AllDigits(ys)
            /\ Len(ms) \in {1, 2} /\ AllDigits(ms)
            /\ Len(dd) \in {1, 2} /\ AllDigits(dd)
            /\ NumVal(ys) >= 1
            /\ NumVal(ms) \in 1..12
            /\ NumVal(dd) >= 1
            /\ NumVal(dd) <= DaysInMonth(NumVal(ys), NumVal(ms))
         THEN [ok |-> TRUE, y |-> NumVal(ys), m |-> NumVal(ms), d |-> NumVal(dd)]
         ELSE [ok |-> FALSE]

Pad(n, w) ==
    LET s == ToString(n) IN
    IF w = 4 THEN (IF n < 10 THEN "000" \o s ELSE IF n < 100 THEN "00" \o s
                   ELSE IF n < 1000 THEN "0" \o s ELSE s)
    ELSE (IF n < 10 THEN "0" \o s ELSE s)

\* date.isoformat(), the lexical form of Literal(date_obj, datatype=XSD.date)
isoformat(dt) == Pad(dt.y, 4) \o "-" \o Pad(dt.m, 2) \o "-" \o Pad(dt.d, 2)

(* ---------------------------------------------------------------- inputs *)
RequiredColumns ==
    {"software_id", "setor", "porte", "frequencia", "frequencia_complementar",
     "fonte", "recomendacao", "data_avaliacao", "comentario", "vantagem",
     "desvantagem"}

OptionalColumns == {"name", "pagina", "sft_anterior", "motivo_mudanca"}

AllColumns == RequiredColumns \cup OptionalColumns

\* Columns that a header of the model may lack (one at a time).
DroppedColumns ==
    {"software_id", "name", "setor", "data_avaliacao", "fonte", "desvantagem"}

Headers == {AllColumns} \cup { AllColumns \ {c} : c \in DroppedColumns }

SoftwareCells ==
    { [software_id |-> "id", name |-> "A", pagina |-> ""],
      [software_id |-> "id", name |-> "B", pagina |-> "p"],
      [software_id |-> "7", name |-> "A", pagina |-> "p"] }

ReviewCells ==
    { [setor |-> "s1", porte |-> "P", frequencia |-> "F", frequencia_complementar |-> "c1",
       data_avaliacao |-> <<"2", "0", "2", "4", "-", "2", "-", "9">>,
       fonte |-> "f1", sft_anterior |-> "x"],
      [setor |-> "s1", porte |-> "P", frequencia |-> "F", frequencia_complementar |-> "c2",
       data_avaliacao |-> <<"2", "0", "2", "4", "-", "1", "3", "-", "4", "0">>,
       fonte |-> "f2", sft_anterior |-> ""] }

\* The lines a file of the model may hold, as the full list of their cells.
FullRows ==
    { [c \in AllColumns |->
          IF c \in DOMAIN s THEN s[c]
          ELSE IF c \in DOMAIN v THEN v[c]
          ELSE IF c = "motivo_mudanca" THEN ""
          ELSE c]
      : s \in SoftwareCells, v \in ReviewCells }

\* The dict that DictReader builds from a line under header h.
DictRow(full, h) == [c \in h |-> full[c]]

\* datetime.now().date().isoformat()
Dates == {"2026-11-01"}

(* ------------------------------------------------------------ operations *)
\* row.get(k): None and '' are both falsy, the only way the result is used
\* where the default matters.
Get(row, k) == IF k \in DOMAIN row THEN row[k] ELSE ""

\* Variant: the new identifier is numbered by the cache size, without the + 1.
get_or_create_reviewer_from_zero(g, cache, setor, porte, frequencia, frequencia_complementar) ==
    LET reviewer_key == <<setor, porte, frequencia, frequencia_complementar>> IN
    IF reviewer_key \in DOMAIN cache
    THEN [graph |-> g, cache |-> cache, uri |-> cache[reviewer_key]]
    ELSE
      LET reviewer_uri == "reviewer_" \o ToString(Cardinality(DOMAIN cache)) IN
      [graph |-> g \cup { <<reviewer_uri, "rdf:type", Uri("Reviewer")>>,
                          <<reviewer_uri, "setor", Literal(setor)>>,
                          <<reviewer_uri, "porte", Literal(porte)>>,
                          <<reviewer_uri, "frequencia", Literal(frequencia)>>,
                          <<reviewer_uri, "frequencia_complementar",
                            Literal(frequencia_complementar)>> },
       cache |-> cache @@ (reviewer_key :> reviewer_uri),
       uri |-> reviewer_uri]

get_or_create_reviewer(g, cache, setor, porte, frequencia, frequencia_complementar) ==
    LET reviewer_key == <<setor, porte, frequencia, frequencia_complementar>> IN
    IF reviewer_key \in DOMAIN cache
    THEN [graph |-> g, cache |-> cache, uri |-> cache[reviewer_key]]
    ELSE
      LET reviewer_uri == "reviewer_" \o ToString(Cardinality(DOMAIN cache) + 1) IN
      [graph |-> g \cup { <<reviewer_uri, "rdf:type", Uri("Reviewer")>>,
                          <<reviewer_uri, "setor", Literal(setor)>>,
                          <<reviewer_uri, "porte", Literal(porte)>>,
                          <<reviewer_uri, "frequencia", Literal(frequencia)>>,
                          <<reviewer_uri, "frequencia_complementar",
                            Literal(frequencia_complementar)>> },
       cache |-> cache @@ (reviewer_key :> reviewer_uri),
       uri |-> reviewer_uri]

\* Variant: the triples are added without the existence check.
get_or_create_software_unchecked(g, software_id, name, pagina) ==
    LET software_uri == "software_" \o software_id IN
    [graph |-> g \cup { <<software_uri, "rdf:type", Uri("Software")>>,
                        <<software_uri, "software_id", Literal(software_id)>>,
                        <<software_uri, "name", Literal(name)>> }
                  \cup (IF pagina # "" THEN { <<software_uri, "pagina", Literal(pagina)>> }
                        ELSE {}),
     uri |-> software_uri]

get_or_create_software(g, software_id, name, pagina) ==
    LET software_uri == "software_" \o software_id IN
    IF <<software_uri, "rdf:type", Uri("Software")>> \notin g
    THEN [graph |-> g \cup { <<software_uri, "rdf:type", Uri("Software")>>,
                             <<software_uri, "software_id", Literal(software_id)>>,
                             <<software_uri, "name", Literal(name)>> }
                       \cup (IF pagina # "" THEN { <<software_uri, "pagina", Literal(pagina)>> }
                             ELSE {}),
          uri |-> software_uri]
    ELSE [graph |-> g, uri |-> software_uri]

\* The graph.add calls of lines 125-140 in order; need is the row key the
\* statement reads with row[...] ("" when it reads none), on tells whether
\* the statement runs (the two optional attributes are guarded by row.get).
ReviewAdds(row, review_uri, date_lex, software_uri, reviewer_uri) ==
    << [need |-> "", on |-> TRUE,
        t |-> <<review_uri, "rdf:type", Uri("Review")>>],
       [need |-> "fonte", on |-> TRUE,
        t |-> <<review_uri, "fonte", Literal(Get(row, "fonte"))>>],
       [need |-> "recomendacao", on |-> TRUE,
        t |-> <<review_uri, "recomendacao", Literal(Get(row, "recomendacao"))>>],
       [need |-> "", on |-> TRUE,
        t |-> <<review_uri, "data_avaliacao", DateLiteral(date_lex)>>],
       [need |-> "comentario", on |-> TRUE,
        t |-> <<review_uri, "comentario", Literal(Get(row, "comentario"))>>],
       [need |-> "vantagem", on |-> TRUE,
        t |-> <<review_uri, "vantagem", Literal(Get(row, "vantagem"))>>],
       [need |-> "desvantagem", on |-> TRUE,
        t |-> <<review_uri, "desvantagem", Literal(Get(row, "desvantagem"))>>],
       [need |-> "", on |-> Get(row, "sft_anterior") # "",
        t |-> <<review_uri, "sft_anterior", Literal(Get(row, "sft_anterior"))>>],
       [need |-> "", on |-> Get(row, "motivo_mudanca") # "",
        t |-> <<review_uri, "motivo_mudanca", Literal(Get(row, "motivo_mudanca"))>>],
       [need |-> "", on |-> TRUE,
        t |-> <<software_uri, "hasReview", Uri(review_uri)>>],
       [need |-> "", on |-> TRUE,
        t |-> <<review_uri, "madeBy", Uri(reviewer_uri)>>] >>

\* Variant: a KeyError rolls back the Review triples of the row.
Emitted_rollback(adds, row) ==
    LET bad == { i \in DOMAIN adds : adds[i].need # "" /\ adds[i].need \notin DOMAIN row }
    IN IF bad = {} THEN { adds[i].t : i \in { j \in DOMAIN adds : adds[j].on } } ELSE {}

\* The statements that run before the first KeyError.
Emitted(adds, row) ==
    LET bad == { i \in DOMAIN adds : adds[i].need # "" /\ adds[i].need \notin DOMAIN row }
        stop == IF bad = {} THEN Len(adds) + 1
                ELSE CHOOSE i \in bad : \A j \in bad : i <= j
    IN { adds[i].t : i \in { j \in 1..(stop - 1) : adds[j].on } }

\* Variant: a rejected cell gives a fixed date instead of the date of processing.
convert_date_fixed(cell, today) ==
    LET parsed == strptime(cell) IN
    IF parsed.ok THEN isoformat(parsed) ELSE "1970-01-01"

\* Lines 119-122: the lexical form of date_obj.  A cell strptime rejects
\* (ValueError) gives the date of processing.
convert_date(cell, today) ==
    LET parsed == strptime(cell) IN
    IF parsed.ok THEN isoformat(parsed) ELSE today

\* The try block from line 100 on, for a row that has software_id: each
\* early exit is the KeyError of the first key the row lacks.
process_keyed_row(g, cache, row, num, today) ==
    LET sw == get_or_create_software(
                  g, row["software_id"],
                  IF "name" \in DOMAIN row THEN row["name"]
                  ELSE "Software " \o row["software_id"],
                  Get(row, "pagina"))
    IN
    IF ~({"setor", "porte", "frequencia", "frequencia_complementar"} \subseteq DOMAIN row)
    THEN [graph |-> sw.graph, cache |-> cache]
    ELSE
      LET rv == get_or_create_reviewer(sw.graph, cache, row["setor"], row["porte"],
                                       row["frequencia"], row["frequencia_complementar"])
          review_uri == "review_" \o ToString(num)
      IN
      IF "data_avaliacao" \notin DOMAIN row
      THEN [graph |-> rv.graph, cache |-> rv.cache]
      ELSE
        LET date_lex == convert_date(row["data_avaliacao"], today)
        IN [graph |-> rv.graph \cup
                      Emitted(ReviewAdds(row, review_uri, date_lex, sw.uri, rv.uri), row),
            cache |-> rv.cache]

\* Variant: a missing software_id is read as '' (row.get) instead of raising.
process_row_default_id(g, cache, row, num, today) ==
    process_keyed_row(g, cache, row @@ ("software_id" :> ""), num, today)

\* One iteration of the for loop of process_csv (the try block and its
\* except clauses): the graph and the cache the iteration leaves.  Both
\* arguments of _get_or_create_software read row['software_id'] first.
process_row(g, cache, row, num, today) ==
    IF "software_id" \notin DOMAIN row THEN [graph |-> g, cache |-> cache]
    ELSE process_keyed_row(g, cache, row, num, today)

(* --------------------------------------------------------------- actions *)
\* CSVOntologyPopulator()
Init ==
    /\ graph = initialize_ontology
    /\ reviewer_cache = <<>>
    /\ is_open = FALSE
    /\ fieldnames = {}
    /\ row_num = 0
    /\ log = <<>>

\* process_csv is called: the file is opened and DictReader reads the header.
\* No file is opened once MaxRows rows have been read.
OpenCsv ==
    /\ ~is_open
    /\ Len(log) < MaxRows
    /\ \E h \in Headers : fieldnames' = h
    /\ is_open' = TRUE
    /\ row_num' = 0
    /\ UNCHANGED <<graph, reviewer_cache, log>>

\* The loop reads the next line of the file and runs its body on it.
ProcessRow ==
    /\ is_open
    /\ Len(log) < MaxRows
    /\ \E full \in FullRows, today \in Dates :
         LET row == DictRow(full, fieldnames)
             res == process_row(graph, reviewer_cache, row, row_num + 1, today)
         IN /\ graph' = res.graph
            /\ reviewer_cache' = res.cache
            /\ log' = Append(log, [row |-> row, num |-> row_num + 1, today |-> today])
    /\ row_num' = row_num + 1
    /\ UNCHANGED <<is_open, fieldnames>>

\* The reader is exhausted: the with block closes the file and process_csv
\* returns, which ends the life of its local row_num.
CloseCsv ==
    /\ is_open
    /\ is_open' = FALSE
    /\ fieldnames' = {}
    /\ row_num' = 0
    /\ UNCHANGED <<graph, reviewer_cache, log>>

Next == OpenCsv \/ ProcessRow \/ CloseCsv

Spec == Init /\ [][Next]_vars

\* print_statistics
subjects(g, type) == { t[1] : t \in { u \in g : u[2] = "rdf:type" /\ u[3] = Uri(type) } }

software_count == Cardinality(subjects(graph, "Software"))
review_count == Cardinality(subjects(graph, "Review"))
reviewer_count == Cardinality(subjects(graph, "Reviewer"))

(* ================================================================ claims *)
Objects(g, s, p) == { t[3] : t \in { u \in g : u[1] = s /\ u[2] = p } }

\* The rows read so far that carry software_id x, in input order.
RowsWithId(x) ==
    { i \in DOMAIN log : "software_id" \in DOMAIN log[i].row /\ log[i].row["software_id"] = x }

FirstRowWithId(x) == CHOOSE i \in RowsWithId(x) : \A j \in RowsWithId(x) : i <= j

\* A row that has all eleven required columns.
ValidRow(row) == RequiredColumns \subseteq DOMAIN row

ReviewOf(e) == "review_" \o ToString(e.num)

\* The file a row of the log was read from: files are counted by their first rows.
FileOf(i) == Cardinality({ j \in 1..i : log[j].num = 1 })

\* All rows read so far come from one process_csv call.
OneCall == \A i \in DOMAIN log : FileOf(i) = 1

\* C1: for every software_id that occurs in the rows read, exactly one
\* Software-typed entity carries that id, it is software_<software_id>, and
\* its name and pagina triples are those of the first row with that id (the
\* name "Software <id>" when the file has no name column, no pagina triple
\* when that row's pagina is empty); later rows add none.
C1_FirstRowWins ==
    \A i \in DOMAIN log :
      "software_id" \in DOMAIN log[i].row =>
        LET x == log[i].row["software_id"]
            first == log[FirstRowWithId(x)].row
            uri == "software_" \o x
        IN /\ { s \in subjects(graph, "Software") :
                  Literal(x) \in Objects(graph, s, "software_id") } = {uri}
           /\ Objects(graph, uri, "software_id") = {Literal(x)}
           /\ Objects(graph, uri, "name") =
                { Literal(IF "name" \in DOMAIN first THEN first["name"]
                          ELSE "Software " \o x) }
           /\ Objects(graph, uri, "pagina") =
                (IF Get(first, "pagina") # "" THEN { Literal(first["pagina"]) } ELSE {})

\* Two rows with the same software_id but another name and another pagina
\* have been read, the first one without a pagina.
C1_Witness ==
    \E i, j \in DOMAIN log :
      /\ i < j
      /\ {"software_id", "name", "pagina"} \subseteq DOMAIN log[i].row
      /\ {"software_id", "name", "pagina"} \subseteq DOMAIN log[j].row
      /\ log[i].row["software_id"] = log[j].row["software_id"]
      /\ log[i].row["name"] # log[j].row["name"]
      /\ log[i].row["pagina"] = ""
      /\ log[j].row["pagina"] # ""

\* The Reviewer-typed entities that carry exactly the four values of key.
ReviewersOf(g, key) ==
    { s \in subjects(g, "Reviewer") :
        /\ Objects(g, s, "setor") = {Literal(key[1])}
        /\ Objects(g, s, "porte") = {Literal(key[2])}
        /\ Objects(g, s, "frequencia") = {Literal(key[3])}
        /\ Objects(g, s, "frequencia_complementar") = {Literal(key[4])} }

ReviewerColumns == {"setor", "porte", "frequencia", "frequencia_complementar"}

KeyOf(row) == <<row["setor"], row["porte"], row["frequencia"], row["frequencia_complementar"]>>

\* C2: after one process_csv call, every Review created from a row is
\* linked by madeBy to exactly the one Reviewer entity that carries the four
\* values of that row's (setor, porte, frequencia, frequencia_complementar),
\* so that rows with the same tuple share their Reviewer.
C2_SameReviewer ==
    (~is_open /\ OneCall) =>
      \A i \in DOMAIN log :
        ReviewOf(log[i]) \in subjects(graph, "Review") =>
          /\ ReviewerColumns \subseteq DOMAIN log[i].row
          /\ Cardinality(ReviewersOf(graph, KeyOf(log[i].row))) = 1
          /\ Objects(graph, ReviewOf(log[i]), "madeBy") =
               { Uri(r) : r \in ReviewersOf(graph, KeyOf(log[i].row)) }

\* The values a Review of this row is to carry, by predicate.
OwnValues(e, p) ==
    IF p = "data_avaliacao"
    THEN { DateLiteral(convert_date(e.row[p], e.today)) }
    ELSE IF p \in RequiredColumns THEN { Literal(e.row[p]) }
    ELSE IF Get(e.row, p) # "" THEN { Literal(e.row[p]) } ELSE {}

ReviewPredicates ==
    {"fonte", "recomendacao", "data_avaliacao", "comentario", "vantagem",
     "desvantagem", "sft_anterior", "motivo_mudanca"}

\* C3: after one process_csv call the number of Review-typed entities is
\* the number of valid rows, and the Review of each valid row carries the
\* attribute values of its own row and no other.
C3_OneReviewPerValidRow ==
    (~is_open /\ OneCall) =>
      /\ review_count = Cardinality({ i \in DOMAIN log : ValidRow(log[i].row) })
      /\ \A i \in DOMAIN log :
           ValidRow(log[i].row) =>
             /\ ReviewOf(log[i]) \in subjects(graph, "Review")
             /\ \A p \in ReviewPredicates :
                  Objects(graph, ReviewOf(log[i]), p) = OwnValues(log[i], p)

\* C4: every Review-typed entity is the object of exactly one hasReview
\* triple and the subject of exactly one madeBy triple.
C4_OneOwnerOneAuthor ==
    \A r \in subjects(graph, "Review") :
      /\ Cardinality({ t \in graph : t[2] = "hasReview" /\ t[3] = Uri(r) }) = 1
      /\ Cardinality({ t \in graph : t[1] = r /\ t[2] = "madeBy" }) = 1

SchemaTerms ==
    { classes[i] : i \in DOMAIN classes }
    \cup { obj_properties[i][1] : i \in DOMAIN obj_properties }
    \cup { dt_properties[i][1] : i \in DOMAIN dt_properties }

\* C7: the triples whose subject is a schema term are exactly those written
\* at initialization, whatever rows have been ingested; with no row read
\* the graph is exactly the schema triples and all three counts are zero.
C7_SchemaUntouched ==
    /\ { t \in graph : t[1] \in SchemaTerms } = initialize_ontology
    /\ log = <<>> =>
         /\ graph = initialize_ontology
         /\ software_count = 0 /\ review_count = 0 /\ reviewer_count = 0

\* A step that reads one more row, and the row it reads.
ReadsRow == Len(log') = Len(log) + 1

Read == log'[Len(log')]

Counts(g) == <<Cardinality(subjects(g, "Software")),
               Cardinality(subjects(g, "Review")),
               Cardinality(subjects(g, "Reviewer"))>>

\* The rows of the log, each with the file it was read from.
Input == [i \in DOMAIN log |-> [row |-> log[i].row, today |-> log[i].today, file |-> FileOf(i)]]

\* The populator run again from construction on the rows es, file by file,
\* each file's rows numbered from 1.
RECURSIVE Replay(_)
Replay(es) ==
    IF es = <<>>
    THEN [graph |-> initialize_ontology, cache |-> <<>>, file |-> 0, num |-> 0]
    ELSE LET prev == Replay(SubSeq(es, 1, Len(es) - 1))
             e == es[Len(es)]
             n == IF e.file = prev.file THEN prev.num + 1 ELSE 1
             r == process_row(prev.graph, prev.cache, e.row, n, e.today)
         IN [graph |-> r.graph, cache |-> r.cache, file |-> e.file, num |-> n]

HasSoftwareId(e) == "software_id" \in DOMAIN e.row

\* C5: reading a row without software_id leaves the graph and the reviewer
\* cache as they were and the loop goes on to the next row; the three
\* counts are those of the same input without the rows that lack software_id.
C5_RowWithoutIdSkipped ==
    /\ []((\E i \in DOMAIN log : ~HasSoftwareId(log[i])) =>
            Counts(graph) = Counts(Replay(SelectSeq(Input, HasSoftwareId)).graph))
    /\ [][(ReadsRow /\ ~HasSoftwareId(Read)) =>
            /\ graph' = graph
            /\ reviewer_cache' = reviewer_cache
            /\ is_open'
            /\ row_num' = row_num + 1]_vars

\* A row without software_id has been read, the next row of the same file
\* has been read after it, and the graph holds no entity.
C5_Witness ==
    \E j, k \in DOMAIN log :
      /\ j < k
      /\ ~HasSoftwareId(log[j])
      /\ FileOf(k) = FileOf(j)
      /\ Counts(graph) = <<0, 0, 0>>

\* C6: a row that has every required column but whose data_avaliacao is no
\* calendar date in YYYY-MM-DD form is ingested in full: its Review is
\* typed, carries the five string attributes of the row, is linked by
\* hasReview from the row's Software and by madeBy to a Reviewer, and the
\* only data_avaliacao triple the row adds carries the date of processing.
C6_InvalidDateFallback ==
    [][(ReadsRow /\ ValidRow(Read.row) /\ ~strptime(Read.row["data_avaliacao"]).ok) =>
         LET r == ReviewOf(Read)
             fallback == <<r, "data_avaliacao", DateLiteral(Read.today)>>
         IN /\ <<r, "rdf:type", Uri("Review")>> \in graph'
            /\ \A p \in {"fonte", "recomendacao", "comentario", "vantagem", "desvantagem"} :
                 <<r, p, Literal(Read.row[p])>> \in graph'
            /\ fallback \in graph'
            /\ { t \in graph' \ graph : t[2] = "data_avaliacao" } \subseteq {fallback}
            /\ <<"software_" \o Read.row["software_id"], "hasReview", Uri(r)>> \in graph'
            /\ \E s \in ReviewersOf(graph', KeyOf(Read.row)) :
                 <<r, "madeBy", Uri(s)>> \in graph']_vars

\* The row with the date 2024-13-40 and all required columns has been read
\* and its Review carries the date of processing.
C6_Witness ==
    \E i \in DOMAIN log :
      /\ ValidRow(log[i].row)
      /\ log[i].row["data_avaliacao"] = <<"2", "0", "2", "4", "-", "1", "3", "-", "4", "0">>
      /\ DateLiteral(log[i].today) \in Objects(graph, ReviewOf(log[i]), "data_avaliacao")

\* The order in which the loop body reads the required columns.
FieldOrder ==
    <<"software_id", "setor", "porte", "frequencia", "frequencia_complementar",
      "data_avaliacao", "fonte", "recomendacao", "comentario", "vantagem", "desvantagem">>

FirstMissing(row) ==
    LET miss == { i \in DOMAIN FieldOrder : FieldOrder[i] \notin DOMAIN row }
    IN FieldOrder[CHOOSE i \in miss : \A j \in miss : i <= j]

\* The place of a triple in the emission order of a row: Software triples,
\* Reviewer triples, the Review type, then the Review attributes and the
\* two relationships.
TripleRank(t) ==
    IF (t[2] = "rdf:type" /\ t[3] = Uri("Software")) \/ t[2] \in {"software_id", "name", "pagina"}
    THEN 1
    ELSE IF (t[2] = "rdf:type" /\ t[3] = Uri("Reviewer")) \/ t[2] \in ReviewerColumns THEN 2
    ELSE IF t[2] = "rdf:type" /\ t[3] = Uri("Review") THEN 3
    ELSE IF t[2] = "fonte" THEN 4
    ELSE IF t[2] = "recomendacao" THEN 5
    ELSE IF t[2] = "data_avaliacao" THEN 6
    ELSE IF t[2] = "comentario" THEN 7
    ELSE IF t[2] = "vantagem" THEN 8
    ELSE IF t[2] = "desvantagem" THEN 9
    ELSE IF t[2] = "sft_anterior" THEN 10
    ELSE IF t[2] = "motivo_mudanca" THEN 11
    ELSE IF t[2] = "hasReview" THEN 12
    ELSE IF t[2] = "madeBy" THEN 13
    ELSE 14

\* The rank of the first triple that a row lacking column f does not reach.
FailRank(f) ==
    IF f \in ReviewerColumns THEN 2
    ELSE IF f = "data_avaliacao" THEN 3
    ELSE IF f = "fonte" THEN 4
    ELSE IF f = "recomendacao" THEN 5
    ELSE IF f = "comentario" THEN 7
    ELSE IF f = "vantagem" THEN 8
    ELSE 9

\* The triples of row e of rank below fr are in g.
KeptBefore(e, fr, g) ==
    LET r == ReviewOf(e) IN
    /\ <<"software_" \o e.row["software_id"], "rdf:type", Uri("Software")>> \in g
    /\ fr > 2 => Cardinality(ReviewersOf(g, KeyOf(e.row))) = 1
    /\ fr > 3 => <<r, "rdf:type", Uri("Review")>> \in g
    /\ fr > 4 => <<r, "fonte", Literal(e.row["fonte"])>> \in g
    /\ fr > 5 => <<r, "recomendacao", Literal(e.row["recomendacao"])>> \in g
    /\ fr > 6 => \E t \in g : t[1] = r /\ t[2] = "data_avaliacao"
    /\ fr > 7 => <<r, "comentario", Literal(e.row["comentario"])>> \in g
    /\ fr > 8 => <<r, "vantagem", Literal(e.row["vantagem"])>> \in g

\* C8: when a row has software_id but lacks another required column, the
\* triples emitted for it before the failure are in the graph afterwards
\* (nothing is rolled back), the row adds no triple that comes at or after
\* the failure in the emission order, and the loop goes on: the rows of a
\* file are attempted once each, numbered 1, 2, ... in input order.
C8_PartialRowKept ==
    /\ [](\A i \in DOMAIN log :
            log[i].num = Cardinality({ j \in 1..i : FileOf(j) = FileOf(i) }))
    /\ [][(ReadsRow /\ HasSoftwareId(Read) /\ ~ValidRow(Read.row)) =>
            LET fr == FailRank(FirstMissing(Read.row)) IN
            /\ graph \subseteq graph'
            /\ KeptBefore(Read, fr, graph')
            /\ \A t \in graph' \ graph : TripleRank(t) < fr
            /\ is_open'
            /\ row_num' = row_num + 1
            /\ Read.num = row_num']_vars

\* A row without the fonte column has left a typed Review with no madeBy
\* triple, and the next row of the file has been read.
C8_Witness ==
    \E i, j \in DOMAIN log :
      /\ i < j
      /\ FileOf(i) = FileOf(j)
      /\ HasSoftwareId(log[i])
      /\ "fonte" \notin DOMAIN log[i].row
      /\ ReviewOf(log[i]) \in subjects(graph, "Review")
      /\ Objects(graph, ReviewOf(log[i]), "madeBy") = {}

\* The rows for which lines 115-116 mint a Review identifier.
Minted(e) == ({"software_id"} \cup ReviewerColumns) \subseteq DOMAIN e.row

\* C9: over the lifetime of a populator no Review identifier is minted for
\* two rows, and once a row is finished no later step adds a triple whose
\* subject or object is that row's Review.
C9_ReviewNeverReused ==
    /\ [](\A i, j \in DOMAIN log :
            (i < j /\ Minted(log[i]) /\ Minted(log[j])) => ReviewOf(log[i]) # ReviewOf(log[j]))
    /\ [][\A i \in DOMAIN log :
            Minted(log[i]) =>
              \A t \in graph' \ graph :
                t[1] # ReviewOf(log[i]) /\ t[3] # Uri(ReviewOf(log[i]))]_vars

\* The rows that reach _get_or_create_reviewer, and the place of a key
\* among the distinct keys in order of first encounter.
KeysBefore(n) == { KeyOf(log[j].row) : j \in { j \in 1..n : Minted(log[j]) } }

KeyIndex(key) ==
    LET first == CHOOSE i \in DOMAIN log :
                   /\ Minted(log[i]) /\ KeyOf(log[i].row) = key
                   /\ \A j \in 1..(i - 1) : ~(Minted(log[j]) /\ KeyOf(log[j].row) = key)
    IN Cardinality(KeysBefore(first - 1)) + 1

\* C10: with k distinct tuples seen, the cache maps them one-to-one onto
\* reviewer_1 .. reviewer_k in order of first encounter, the graph has k
\* Reviewer-typed subjects, and a call that hits the cache changes neither
\* the graph nor the cache.
C10_ReviewerCache ==
    /\ [](LET k == Cardinality(DOMAIN reviewer_cache) IN
          /\ DOMAIN reviewer_cache = KeysBefore(Len(log))
          /\ \A key \in DOMAIN reviewer_cache :
               reviewer_cache[key] = "reviewer_" \o ToString(KeyIndex(key))
          /\ { reviewer_cache[key] : key \in DOMAIN reviewer_cache } =
               { "reviewer_" \o ToString(n) : n \in 1..k }
          /\ \A a, b \in DOMAIN reviewer_cache :
               reviewer_cache[a] = reviewer_cache[b] => a = b
          /\ reviewer_count = k
          /\ \A key \in DOMAIN reviewer_cache :
               LET hit == get_or_create_reviewer(graph, reviewer_cache,
                                                 key[1], key[2], key[3], key[4])
               IN hit.graph = graph /\ hit.cache = reviewer_cache
                  /\ hit.uri = reviewer_cache[key])
    /\ [][(ReadsRow /\ Minted(Read) /\ KeyOf(Read.row) \in DOMAIN reviewer_cache) =>
            /\ reviewer_cache' = reviewer_cache
            /\ \A t \in graph' \ graph : t[1] \notin subjects(graph', "Reviewer")]_vars

\* Two rows with distinct tuples have been read: both tuples are cached,
\* the first under reviewer_1 and the second under reviewer_2.
C10_Witness ==
    \E i, j \in DOMAIN log :
      /\ i < j /\ Minted(log[i]) /\ Minted(log[j])
      /\ KeyOf(log[i].row) # KeyOf(log[j].row)
      /\ reviewer_cache[KeyOf(log[i].row)] = "reviewer_1"
      /\ reviewer_cache[KeyOf(log[j].row)] = "reviewer_2"

====
